---------------------------- MODULE Spec2Model ----------------------------
(***************************************************************************)
(* A model of src/native/src/lib.rs: the process-wide document store,      *)
(* the node walker, the content parser, the signature tokenizer and the    *)
(* scrape_document orchestrator.                                           *)
(*                                                                         *)
(* Strings are sequences of one-character strings, so that trim, replace,  *)
(* contains and concatenation are computed as Rust computes them.  An      *)
(* Option<T> is a sequence of length 0 (None) or 1 (Some).  A class        *)
(* attribute is kept as the sequence of its space-separated pieces, which  *)
(* is what split(" ") returns for it.                                      *)
(***************************************************************************)
EXTENDS Integers, Sequences, FiniteSets, TLC

VARIABLES
    DOCUMENT_STORE,   \* Option<HashMap<url, Document>>: the SyncOnceCell
    parses,           \* history: the htmls Document::from was run on, per url
    called,           \* history: urls whose lookup-or-insert step has run
    ret,              \* what the last finished call returned
    call,             \* the arguments of the last finished scrape_document
    threads,          \* per thread: position and locals of its running call
    node,             \* the argument of the pure function under check
    walked,           \* Option<walk_nodes(node)>
    idx,              \* parse_node's position in the walked children
    result,           \* parse_node's local `result`
    pending_rubric,   \* parse_node's local `pending_rubric`
    fields,           \* parse_node's local `fields`
    pc,               \* position of the pure-function run
    sections          \* Option<parse_signature_node(node)>

vars == <<DOCUMENT_STORE, parses, called, ret, call, threads, node, walked, idx,
          result, pending_rubric, fields, pc, sections>>

-----------------------------------------------------------------------------
(* Option and string helpers                                               *)

None == <<>>
Some(v) == <<v>>
is_some(o) == o # <<>>
unwrap(o) == o[1]

IsWhitespace(c) == c \in {" ", "\n"}

RECURSIVE trim_start(_)
trim_start(s) ==
    IF s # <<>> /\ IsWhitespace(Head(s)) THEN trim_start(Tail(s)) ELSE s

RECURSIVE trim_end(_)
trim_end(s) ==
    IF s # <<>> /\ IsWhitespace(s[Len(s)])
    THEN trim_end(SubSeq(s, 1, Len(s) - 1))
    ELSE s

trim(s) == trim_end(trim_start(s))

contains(s, pat) ==
    \E i \in 1..(Len(s) - Len(pat) + 1) : SubSeq(s, i, i + Len(pat) - 1) = pat

\* str::replace("\n", " ")
replace_newlines(s) == [i \in 1..Len(s) |-> IF s[i] = "\n" THEN " " ELSE s[i]]

RECURSIVE join(_, _)
join(chunks, sep) ==
    IF chunks = <<>> THEN <<>>
    ELSE IF Len(chunks) = 1 THEN chunks[1]
    ELSE chunks[1] \o sep \o join(Tail(chunks), sep)

DigitChars == <<"0", "1", "2", "3", "4", "5", "6", "7", "8", "9">>

RECURSIVE to_decimal(_)
to_decimal(n) ==
    IF n < 10 THEN <<DigitChars[n + 1]>>
    ELSE to_decimal(n \div 10) \o <<DigitChars[(n % 10) + 1]>>

RECURSIVE Flatten(_)
Flatten(ss) == IF ss = <<>> THEN <<>> ELSE Head(ss) \o Flatten(Tail(ss))

-----------------------------------------------------------------------------
(* The tree model (select::node::Node)                                     *)

TextNode(s) ==
    [type |-> "Text", name |-> "", class |-> None, href |-> None,
     id |-> None, text |-> s, kids |-> <<>>]

CommentNode ==
    [type |-> "Comment", name |-> "", class |-> None, href |-> None,
     id |-> None, text |-> <<>>, kids |-> <<>>]

\* an element: class is None or Some(sequence of class names)
El(name, class, kids) ==
    [type |-> "Element", name |-> name, class |-> class, href |-> None,
     id |-> None, text |-> <<>>, kids |-> kids]

Classes(cs) == Some(cs)

WithKids(n, kids) == [n EXCEPT !.kids = kids]

\* Node::text(): the concatenated text of the node and its descendants
RECURSIVE node_text(_)
node_text(n) ==
    IF n.type = "Text" THEN n.text
    ELSE Flatten([i \in 1..Len(n.kids) |-> node_text(n.kids[i])])

\* a node below n is named by its path, the child indices from n down
RECURSIVE at(_, _)
at(n, path) == IF path = <<>> THEN n ELSE at(n.kids[Head(path)], Tail(path))

\* Node::descendants(): the paths of all nodes below n, in document order
RECURSIVE descendants(_)
descendants(n) ==
    Flatten([i \in 1..Len(n.kids) |->
        LET below == descendants(n.kids[i]) IN
        <<<<i>>>> \o [j \in 1..Len(below) |-> <<i>> \o below[j]]])

\* Node::find(predicate): the descendants' paths that satisfy it, in order
find(n, P(_)) == SelectSeq(descendants(n), LAMBDA p : P(at(n, p)))

\* Iterator::next() on a Find
first_of(paths) == IF paths = <<>> THEN None ELSE Some(paths[1])

\* Node::next(): the next sibling, of any node type
next_sibling(n, path) ==
    LET up == SubSeq(path, 1, Len(path) - 1)
        i == path[Len(path)]
    IN IF i < Len(at(n, up).kids) THEN Some(up \o <<i + 1>>) ELSE None

\* predicates Name(tag) and Class(c)
Name(tag, n) == n.type = "Element" /\ n.name = tag

SeqHas(s, x) == \E i \in 1..Len(s) : s[i] = x

HasClassPredicate(c, n) ==
    n.type = "Element" /\ is_some(n.class) /\ SeqHas(unwrap(n.class), c)

\* attr("class").unwrap_or("").split(" ")
class_list_or_empty(n) == IF is_some(n.class) THEN unwrap(n.class) ELSE <<>>

-----------------------------------------------------------------------------
(* walk_nodes                                                              *)

WrappedText(text) == [w |-> "Text", text |-> text, element |-> None]
WrappedElement(n) == [w |-> "Element", text |-> <<>>, element |-> Some(n)]

AllowedTags == {"p", "a", "b", "i", "em", "strong", "u", "ul", "ol", "code"}

\* unwrapped.starts_with("h"), over the tag names the model uses
HTags == {"h1", "h2", "h3", "hr", "html", "head", "header"}
starts_with_h(name) == name \in HTags

WalkedDivClasses ==
    {"admonition", "operations", "highlight-python3", "highlight-default"}

\* the dl arm of the loop: TRUE when the loop breaks
DlBreaksMutantContinue(class_list) == FALSE
DlBreaks(class_list) == ~SeqHas(class_list, "field-list")

RECURSIVE walk_nodes(_)
RECURSIVE WalkLoop(_, _, _)
WalkLoop(children, i, acc) ==
    IF i > Len(children) THEN acc
    ELSE LET child == children[i] IN
        IF child.type = "Text"
        THEN WalkLoop(children, i + 1,
                 IF Len(child.text) > 0
                 THEN Append(acc, WrappedText(child.text)) ELSE acc)
        ELSE IF child.type # "Element"
        THEN WalkLoop(children, i + 1, acc)
        ELSE IF child.name \in AllowedTags
        THEN WalkLoop(children, i + 1, Append(acc, WrappedElement(child)))
        ELSE IF starts_with_h(child.name)
        THEN WalkLoop(children, i + 1, Append(acc, WrappedElement(child)))
        ELSE IF ~is_some(child.class)
        THEN WalkLoop(children, i + 1, acc)
        ELSE LET class_list == unwrap(child.class) IN
            IF child.name = "dl"
            THEN IF DlBreaks(class_list)
                 THEN acc
                 ELSE WalkLoop(children, i + 1,
                          Append(acc, WrappedElement(child)))
            ELSE IF child.name = "div"
                    /\ \E tag \in WalkedDivClasses : SeqHas(class_list, tag)
            THEN WalkLoop(children, i + 1, Append(acc, WrappedElement(child)))
            ELSE WalkLoop(children, i + 1, acc \o walk_nodes(child))

walk_nodes(n) == WalkLoop(n.kids, 1, <<>>)

-----------------------------------------------------------------------------
(* parse_node                                                              *)

EmbedField(name, value) == [name |-> name, value |-> value, inline |-> FALSE]

\* the characters U+2022 and U+0060, named
Bullet == "U+2022"
Backtick == "U+0060"
NoContentProvided ==
    <<"N", "o", " ", "c", "o", "n", "t", "e", "n", "t", " ",
      "p", "r", "o", "v", "i", "d", "e", "d", ".">>
SupportedOperations ==
    <<"S", "u", "p", "p", "o", "r", "t", "e", "d", " ",
      "O", "p", "e", "r", "a", "t", "i", "o", "n", "s">>
PyFenceOpen == <<Backtick, Backtick, Backtick, "p", "y", "\n">>
FenceOpen == <<Backtick, Backtick, Backtick, "\n">>
FenceClose == <<Backtick, Backtick, Backtick>>

\* what a call that unwinds leaves behind: nothing
Panicked == [ok |-> FALSE, text |-> <<>>, fields |-> <<>>]

\* parse_node's locals at the top of the loop
NewAcc == [ok |-> TRUE, result |-> <<>>, pending_rubric |-> None, fields |-> <<>>]
Unwound == [ok |-> FALSE, result |-> <<>>, pending_rubric |-> None, fields |-> <<>>]

\* parse_node and the operators it runs through call one another
RECURSIVE parse_node(_, _)
RECURSIVE Recur(_, _, _)
RECURSIVE ArmP(_, _, _)
RECURSIVE ArmA(_, _, _)
RECURSIVE ArmWrap(_, _, _, _)
RECURSIVE ArmUl(_, _, _)
RECURSIVE ArmOl(_, _, _)
RECURSIVE Describe(_, _, _)
RECURSIVE ArmDiv(_, _, _)
RECURSIVE ArmDl(_, _, _)
RECURSIVE ParseChild(_, _, _)

\* the closure _recur: extends `fields` and returns the text r
Recur(acc, element, url) ==
    LET pr == parse_node(element, url) IN
    IF acc.ok /\ pr.ok
    THEN [acc |-> [acc EXCEPT !.fields = @ \o pr.fields], r |-> pr.text]
    ELSE [acc |-> Unwound, r |-> <<>>]

\* pending_rubric = Some(element.text().trim().to_string())
CaptureRubric(element) == Some(trim(node_text(element)))

ArmP(acc, element, url) ==
    IF SeqHas(class_list_or_empty(element), "rubric")
    THEN [acc EXCEPT !.pending_rubric = CaptureRubric(element)]
    ELSE LET rc == Recur(acc, element, url) IN
         [rc.acc EXCEPT !.result = @ \o rc.r]

ArmA(acc, element, url) ==
    LET rc == Recur(acc, element, url) IN
    IF ~is_some(element.href) THEN rc.acc
    ELSE LET given == unwrap(element.href)
             href == IF ~contains(given, <<":", "/", "/">>)
                     THEN url \o given ELSE given
         IN [rc.acc EXCEPT
                !.result = @ \o <<"[">> \o rc.r \o <<"]", "(">> \o href \o <<")">>]

ArmWrap(acc, element, url, mark) ==
    LET rc == Recur(acc, element, url) IN
    [rc.acc EXCEPT !.result = @ \o mark \o rc.r \o mark]

IsLi(n) == Name("li", n)
IsP(n) == Name("p", n)
IsDt(n) == Name("dt", n)
IsDd(n) == Name("dd", n)
IsDlDescribe(n) == Name("dl", n) /\ HasClassPredicate("describe", n)

RECURSIVE UlLoop(_, _, _, _, _)
UlLoop(acc, element, lis, i, url) ==
    IF i > Len(lis) THEN acc
    ELSE LET rc == Recur(acc, at(element, lis[i]), url) IN
         UlLoop([rc.acc EXCEPT !.result = @ \o <<Bullet, " ">> \o rc.r \o <<"\n">>],
                element, lis, i + 1, url)

ArmUl(acc, element, url) ==
    UlLoop([acc EXCEPT !.result = Append(@, "\n")],
           element, find(element, IsLi), 1, url)

\* enumerate(): the index starts at 0
RECURSIVE OlLoop(_, _, _, _, _)
OlLoop(acc, element, lis, i, url) ==
    IF i > Len(lis) THEN acc
    ELSE LET rc == Recur(acc, at(element, lis[i]), url) IN
         OlLoop([rc.acc EXCEPT
                    !.result = @ \o to_decimal(i - 1) \o <<".", " ">>
                                 \o rc.r \o <<"\n">>],
                element, lis, i + 1, url)

ArmOl(acc, element, url) == OlLoop(acc, element, find(element, IsLi), 1, url)

\* the loop over the div's dl.describe descendants and the push after it
RECURSIVE DescribeLoop(_, _, _, _, _, _)
DescribeLoop(acc, element, dls, i, chunks, url) ==
    IF i > Len(dls)
    THEN IF Len(chunks) > 0
         THEN [acc EXCEPT
                  !.fields = Append(@, EmbedField(SupportedOperations,
                                                  join(chunks, <<"\n">>)))]
         ELSE acc
    ELSE LET child == at(element, dls[i])
             dt == first_of(find(child, IsDt))
             dd == first_of(find(child, IsDd))
         IN IF ~is_some(dt) \/ ~is_some(dd)
            THEN Unwound     \* .next().unwrap() on None panics
            ELSE LET ro == Recur(acc, at(child, unwrap(dt)), url)
                     rd == Recur(ro.acc, at(child, unwrap(dd)), url)
                 IN IF ~rd.acc.ok THEN Unwound
                    ELSE DescribeLoop(rd.acc, element, dls, i + 1,
                             Append(chunks,
                                 <<"*", "*", Backtick>> \o trim(ro.r)
                                 \o <<Backtick, "*", "*", " ", "-", " ">>
                                 \o trim(replace_newlines(rd.r))),
                             url)

Describe(acc, element, url) ==
    DescribeLoop(acc, element, find(element, IsDlDescribe), 1, <<>>, url)

\* pending_rubric.take()
TakeMutantKeep(acc) == acc
Take(acc) == [acc EXCEPT !.pending_rubric = None]

ArmDiv(acc, element, url) ==
    LET class_list == class_list_or_empty(element) IN
    IF SeqHas(class_list, "admonition")
    THEN LET firstp == first_of(find(element, IsP)) IN
         IF ~is_some(firstp) THEN acc
         ELSE LET first == unwrap(firstp)
                  rt == Recur(acc, at(element, first), url)
                  title == trim(rt.r)
                  nxt == next_sibling(element, first)
              IN IF ~is_some(nxt) THEN rt.acc
                 ELSE LET rn == Recur(rt.acc, at(element, unwrap(nxt)), url)
                          content == trim(rn.r)
                      IN IF Len(title) <= 0 \/ Len(content) <= 0
                         THEN rn.acc
                         ELSE Describe(
                                  [rn.acc EXCEPT
                                      !.fields = Append(@, EmbedField(title, content))],
                                  element, url)
    ELSE IF is_some(acc.pending_rubric) /\ SeqHas(class_list, "highlight-python3")
    THEN Describe(
             Take([acc EXCEPT
                 !.fields = Append(@,
                     EmbedField(unwrap(acc.pending_rubric),
                                PyFenceOpen \o node_text(element) \o FenceClose))]),
             element, url)
    ELSE IF SeqHas(class_list, "highlight-default")
    THEN Describe(
             [acc EXCEPT
                 !.result = @ \o FenceOpen \o node_text(element) \o FenceClose],
             element, url)
    ELSE Describe(acc, element, url)

\* the two pushes of the dl arm, for one (dt, dd) pair of recursed texts
DlPairFields(dt, dd) ==
    IF Len(dt) > 0 /\ Len(dd) > 0 THEN <<EmbedField(dt, dd)>>
    ELSE IF Len(dd) <= 0 THEN <<EmbedField(dt, NoContentProvided)>>
    ELSE <<>>

Min(a, b) == IF a < b THEN a ELSE b

\* for (dt, dd) in element.find(Name("dt")).zip(element.find(Name("dd")))
RECURSIVE DlLoop(_, _, _, _, _, _)
DlLoop(acc, element, dts, dds, i, url) ==
    IF i > Min(Len(dts), Len(dds)) THEN acc
    ELSE LET rt == Recur(acc, at(element, dts[i]), url)
             rd == Recur(rt.acc, at(element, dds[i]), url)
         IN IF ~rd.acc.ok THEN Unwound
            ELSE DlLoop([rd.acc EXCEPT !.fields = @ \o DlPairFields(rt.r, rd.r)],
                        element, dts, dds, i + 1, url)

ArmDl(acc, element, url) ==
    DlLoop(acc, element, find(element, IsDt), find(element, IsDd), 1, url)

\* the body of `for child in walk_nodes(node)`, for one child
ParseChild(acc, child, url) ==
    IF child.w = "Text" THEN [acc EXCEPT !.result = @ \o child.text]
    ELSE LET element == unwrap(child.element) IN
         CASE element.name = "p" -> ArmP(acc, element, url)
           [] element.name = "a" -> ArmA(acc, element, url)
           [] element.name \in {"b", "strong"} -> ArmWrap(acc, element, url, <<"*", "*">>)
           [] element.name \in {"i", "em"} -> ArmWrap(acc, element, url, <<"*">>)
           [] element.name = "u" -> ArmWrap(acc, element, url, <<"_", "_">>)
           [] element.name = "code" -> ArmWrap(acc, element, url, <<Backtick>>)
           [] element.name = "ul" -> ArmUl(acc, element, url)
           [] element.name = "ol" -> ArmOl(acc, element, url)
           [] element.name = "div" -> ArmDiv(acc, element, url)
           [] element.name = "dl" -> ArmDl(acc, element, url)
           [] OTHER -> acc

RECURSIVE ParseLoop(_, _, _, _)
ParseLoop(children, i, acc, url) ==
    IF ~acc.ok THEN Unwound
    ELSE IF i > Len(children) THEN acc
    ELSE ParseLoop(children, i + 1, ParseChild(acc, children[i], url), url)

parse_node(n, url) ==
    IF n.type = "Text" THEN [ok |-> TRUE, text |-> node_text(n), fields |-> <<>>]
    ELSE LET acc == ParseLoop(walk_nodes(n), 1, NewAcc, url) IN
         IF acc.ok
         THEN [ok |-> TRUE, text |-> acc.result, fields |-> acc.fields]
         ELSE Panicked

-----------------------------------------------------------------------------
(* parse_signature_node                                                    *)

AnsiStringSection(content, bold, color) ==
    [content |-> content, bold |-> bold, color |-> color]

\* the arm of the if / else-if chain an element child takes
SignatureArmMutantOrder(name, classes) ==
    IF name = "em" /\ ~SeqHas(classes, "sig-param") THEN "em"
    ELSE IF SeqHas(classes, "n") THEN "n"
    ELSE IF SeqHas(classes, "sig-paren") \/ SeqHas(classes, "o") THEN "paren"
    ELSE IF SeqHas(classes, "default_value") THEN "default_value"
    ELSE IF SeqHas(classes, "sig-prename") THEN "prename"
    ELSE IF SeqHas(classes, "descname") \/ SeqHas(classes, "sig-name") THEN "name"
    ELSE IF SeqHas(classes, "sig-param") THEN "param"
    ELSE "none"

SignatureArm(name, classes) ==
    IF name = "em" /\ ~SeqHas(classes, "sig-param") THEN "em"
    ELSE IF SeqHas(classes, "sig-paren") \/ SeqHas(classes, "o") THEN "paren"
    ELSE IF SeqHas(classes, "n") THEN "n"
    ELSE IF SeqHas(classes, "default_value") THEN "default_value"
    ELSE IF SeqHas(classes, "sig-prename") THEN "prename"
    ELSE IF SeqHas(classes, "descname") \/ SeqHas(classes, "sig-name") THEN "name"
    ELSE IF SeqHas(classes, "sig-param") THEN "param"
    ELSE "none"

RECURSIVE parse_signature_node(_)

\* the sections one child pushes
SignatureChild(child) ==
    IF child.type = "Text"
    THEN <<AnsiStringSection(node_text(child), TRUE, "gray")>>
    ELSE IF child.type # "Element" THEN <<>>
    ELSE LET classes == class_list_or_empty(child)
             arm == SignatureArm(child.name, classes)
             content == node_text(child)
         IN CASE arm = "em" -> <<AnsiStringSection(content, FALSE, "green")>>
              [] arm = "paren" -> <<AnsiStringSection(content, TRUE, "gray")>>
              [] arm = "n" -> <<AnsiStringSection(content, FALSE, "yellow")>>
              [] arm = "default_value" -> <<AnsiStringSection(content, FALSE, "cyan")>>
              [] arm = "prename" ->
                   <<AnsiStringSection(content, FALSE,
                        IF SeqHas(classes, "descclassname") THEN "white" ELSE "red")>>
              [] arm = "name" -> <<AnsiStringSection(content, TRUE, "white")>>
              [] arm = "param" -> parse_signature_node(child)
              [] OTHER -> <<>>

parse_signature_node(n) ==
    Flatten([i \in 1..Len(n.kids) |-> SignatureChild(n.kids[i])])

-----------------------------------------------------------------------------
(* The document store, has_document and scrape_document                    *)

\* HashMap<String, Document> as a function on the keys it holds
EmptyMap == [u \in {} |-> <<>>]
contains_key(store, url) == url \in DOMAIN store
get(store, url) == IF url \in DOMAIN store THEN Some(store[url]) ELSE None
insert(store, url, document) ==
    [u \in DOMAIN store \cup {url} |-> IF u = url THEN document ELSE store[u]]

has_documentMutantAnyStore(cell, url) == is_some(cell)
has_document(cell, url) ==
    IF is_some(cell) THEN contains_key(unwrap(cell), url) ELSE FALSE

\* PyResult<SphinxDocumentResult>, or the unwinding of a panic
NoReturn ==
    [op |-> "none", kind |-> "none", message |-> "", value |-> FALSE,
     description |-> <<>>, signature |-> <<>>, fields |-> <<>>]
Ok(description, signature, flds) ==
    [op |-> "scrape_document", kind |-> "Ok", message |-> "", value |-> FALSE,
     description |-> description, signature |-> signature, fields |-> flds]
PyValueError(message) ==
    [op |-> "scrape_document", kind |-> "PyValueError", message |-> message,
     value |-> FALSE, description |-> <<>>, signature |-> <<>>, fields |-> <<>>]
Panic ==
    [op |-> "scrape_document", kind |-> "panic", message |-> "", value |-> FALSE,
     description |-> <<>>, signature |-> <<>>, fields |-> <<>>]
Bool(b) ==
    [op |-> "has_document", kind |-> "bool", message |-> "", value |-> b,
     description |-> <<>>, signature |-> <<>>, fields |-> <<>>]

\* document.find(Name("dt").and(Attr("id", target))).next()
find_signatureMutantAnyDt(document, target) == first_of(find(document, IsDt))
find_signature(document, target) ==
    first_of(find(document, LAMBDA n : Name("dt", n) /\ n.id = Some(target)))

\* the part of scrape_document after the store: lines 386 to 407
extract(document, url, target) ==
    LET signature == find_signature(document, target) IN
    IF ~is_some(signature) THEN PyValueError("Could not find sig tag")
    ELSE LET sig == unwrap(signature)
             parent == at(document, SubSeq(sig, 1, Len(sig) - 1))
             dd == first_of(find(parent, IsDd))
         IN IF ~is_some(dd) THEN PyValueError("Could not find dd tag")
            ELSE LET parsed == parse_node(at(parent, unwrap(dd)), url) IN
                 IF ~parsed.ok THEN Panic
                 ELSE Ok(parsed.text,
                         parse_signature_node(at(document, sig)),
                         parsed.fields)

-----------------------------------------------------------------------------
(* Inputs: bounded sets of trees                                           *)

\* all sequences over S of length at most n
SeqsUpTo(S, n) == UNION {[1..k -> S] : k \in 0..n}

MaxWalkKids == 3
MaxSigKids == 3
MaxSigClasses == 2
MaxParseKids == 3
MaxAdmonitionKids == 3

Ta == TextNode(<<"a">>)
Tb == TextNode(<<"b">>)
Tnl == TextNode(<<"\n">>)
Para(txt) == El("p", None, <<TextNode(txt)>>)
Dt(kids) == El("dt", None, kids)
Dd(kids) == El("dd", None, kids)

\* the base url handed to parse_node
BaseUrl == <<"h", ":", "/", "/", "d", "/">>

WalkCatalog ==
    { Ta, CommentNode, Para(<<"a">>), Para(<<"b">>),
      El("h1", None, <<Tb>>),
      El("span", None, <<Para(<<"b">>)>>),
      El("dl", Classes(<<"x">>), <<Dt(<<Ta>>), Dd(<<Tb>>)>>),
      El("dl", Classes(<<>>), <<Dt(<<Ta>>)>>),
      El("dl", None, <<Dt(<<Ta>>)>>),
      El("dl", Classes(<<"field-list">>), <<Dt(<<Ta>>), Dd(<<Tb>>)>>),
      El("dl", Classes(<<"field-list", "simple">>), <<>>),
      El("div", Classes(<<"admonition">>), <<Para(<<"a">>)>>),
      El("div", Classes(<<"w">>),
         <<Para(<<"b">>), El("dl", Classes(<<"x">>), <<>>), Para(<<"a">>)>>),
      El("section", Classes(<<"w">>), <<El("dl", Classes(<<"x">>), <<>>)>>) }

WalkInputs == {Dd(kids) : kids \in SeqsUpTo(WalkCatalog, MaxWalkKids)}

SigClasses ==
    {"sig-param", "sig-paren", "o", "n", "default_value", "sig-prename",
     "descclassname", "descname", "sig-name", "pre"}

SigParamKids ==
    <<El("span", Classes(<<"n">>), <<Ta>>), Tb,
      El("span", Classes(<<"default_value">>), <<Tb>>)>>

\* every tag and class combination, alone
SigSingles ==
    { El(tag, class, kids) :
        tag \in {"em", "span"},
        class \in {None} \cup {Classes(cs) : cs \in SeqsUpTo(SigClasses, MaxSigClasses)},
        kids \in {<<Ta>>, SigParamKids} }

\* a few children, in every order
SigSeqCatalog ==
    { Ta, CommentNode,
      El("span", Classes(<<"n">>), <<Tb>>),
      El("span", Classes(<<"pre">>), <<Tb>>),
      El("em", Classes(<<"sig-param">>), SigParamKids) }

SigInputs ==
    {Dt(<<c>>) : c \in SigSingles}
    \cup {Dt(kids) : kids \in SeqsUpTo(SigSeqCatalog, MaxSigKids)}

Div(classes, kids) == El("div", Classes(classes), kids)
Li(kids) == El("li", None, kids)
Link(href, kids) == [El("a", None, kids) EXCEPT !.href = href]
Pre(txt) == El("pre", None, <<TextNode(txt)>>)
Rubric(txt) == El("p", Classes(<<"rubric">>), <<TextNode(txt)>>)
EmptyP == El("p", None, <<>>)
DlDescribe(kids) == El("dl", Classes(<<"describe">>), kids)
FieldList(kids) == El("dl", Classes(<<"field-list">>), kids)

\* the children an admonition div is tried with
AdmonitionKids ==
    SeqsUpTo({Para(<<"T">>), EmptyP, Tnl, Para(<<" ", "C", "\n">>)},
             MaxAdmonitionKids)

\* (dt, dd) texts a field list is tried with
DlTexts == {<<>>, <<Ta>>}

ParseSingles ==
    { Ta, Tnl, Para(<<"a">>), Rubric(<<"r">>),
      El("h1", None, <<Ta>>),
      Link(Some(<<"/", "x">>), <<Ta>>),
      Link(Some(<<"h", ":", "/", "/", "o">>), <<Ta>>),
      Link(None, <<Ta>>),
      El("b", None, <<Ta>>), El("strong", None, <<Ta>>),
      El("i", None, <<Ta>>), El("em", None, <<Ta>>),
      El("u", None, <<Ta>>), El("code", None, <<Ta>>),
      El("ul", None, <<Li(<<Ta>>), Li(<<Tb>>)>>),
      El("ol", None, <<Li(<<Ta>>), Li(<<El("b", None, <<Tb>>)>>)>>),
      Div(<<"highlight-python3">>, <<Pre(<<"c">>)>>),
      Div(<<"highlight-default">>, <<Pre(<<"c">>)>>),
      Div(<<"operations">>, <<>>),
      Div(<<"operations">>,
          <<DlDescribe(<<Dt(<<Ta>>), Dd(<<Para(<<"b", "\n", "c">>)>>)>>),
            DlDescribe(<<Dt(<<Tb>>), Dd(<<Ta>>)>>)>>),
      Div(<<"operations">>, <<DlDescribe(<<Dd(<<Ta>>)>>)>>),
      Div(<<"operations">>, <<DlDescribe(<<Dt(<<Ta>>)>>)>>),
      Div(<<"admonition">>,
          <<Para(<<"T">>), Para(<<"C">>), DlDescribe(<<Dt(<<Ta>>)>>)>>),
      Div(<<"admonition">>,
          <<Para(<<"T">>), Div(<<"admonition">>, <<Para(<<"U">>), Para(<<"D">>)>>)>>),
      FieldList(<<Dt(<<Ta>>), Dd(<<Tb>>), Dt(<<Tb>>), Dd(<<>>), Dt(<<Ta>>)>>),
      El("dl", Classes(<<"x">>), <<Dt(<<Ta>>), Dd(<<Tb>>)>>) }
    \cup {Div(<<"admonition">>, kids) : kids \in AdmonitionKids}
    \cup {FieldList(<<Dt(t), Dd(d)>>) : t \in DlTexts, d \in DlTexts}

\* the children the pending rubric is followed through, in every order
RubricCatalog ==
    { Ta, Rubric(<<" ", "r">>), Rubric(<<"s">>),
      Div(<<"highlight-python3">>, <<Pre(<<"c">>)>>),
      Div(<<"admonition", "highlight-python3">>, <<Para(<<"T">>), Para(<<"C">>)>>),
      Div(<<"highlight-python3", "highlight-default">>, <<Pre(<<"c">>)>>),
      Div(<<"w">>, <<Rubric(<<"q">>)>>),
      El("ul", None, <<Li(<<Div(<<"highlight-python3">>, <<Pre(<<"c">>)>>)>>)>>),
      El("ul", None, <<Li(<<Rubric(<<"n">>)>>)>>),
      El("ul", None,
         <<Li(<<Rubric(<<"m">>), Div(<<"highlight-python3">>, <<Pre(<<"d">>)>>)>>)>>) }

ParseInputs ==
    {Ta}
    \cup {Dd(<<c>>) : c \in ParseSingles}
    \cup {Dd(kids) : kids \in SeqsUpTo(RubricCatalog, MaxParseKids)}

-----------------------------------------------------------------------------
(* The pure functions as state machines                                    *)

IdleCache ==
    /\ DOCUMENT_STORE = None
    /\ parses = <<>>
    /\ called = {}
    /\ ret = <<>>
    /\ call = <<>>
    /\ threads = <<>>

CacheUnchanged == UNCHANGED <<DOCUMENT_STORE, parses, called, ret, call, threads>>

InitPure(inputs) ==
    /\ IdleCache
    /\ node \in inputs
    /\ walked = None
    /\ idx = 0
    /\ result = <<>>
    /\ pending_rubric = None
    /\ fields = <<>>
    /\ pc = "start"
    /\ sections = None

\* walk_nodes(node), alone
WalkNodes ==
    /\ pc = "start"
    /\ walked' = Some(walk_nodes(node))
    /\ pc' = "walked"
    /\ UNCHANGED <<node, idx, result, pending_rubric, fields, sections>>
    /\ CacheUnchanged

InitWalk == InitPure(WalkInputs)
NextWalk == WalkNodes
SpecWalk == InitWalk /\ [][NextWalk]_vars

\* parse_signature_node(node)
ParseSignatureNode ==
    /\ pc = "start"
    /\ sections' = Some(parse_signature_node(node))
    /\ pc' = "returned"
    /\ UNCHANGED <<node, walked, idx, result, pending_rubric, fields>>
    /\ CacheUnchanged

InitSig == InitPure(SigInputs)
NextSig == ParseSignatureNode
SpecSig == InitSig /\ [][NextSig]_vars

\* parse_node(node, BaseUrl): the early return for a text node
ParseText ==
    /\ pc = "start"
    /\ node.type = "Text"
    /\ result' = node_text(node)
    /\ pc' = "returned"
    /\ UNCHANGED <<node, walked, idx, pending_rubric, fields, sections>>
    /\ CacheUnchanged

\* parse_node: `for child in walk_nodes(node)` is entered
ParseEnter ==
    /\ pc = "start"
    /\ node.type # "Text"
    /\ walked' = Some(walk_nodes(node))
    /\ idx' = 1
    /\ pc' = "loop"
    /\ UNCHANGED <<node, result, pending_rubric, fields, sections>>
    /\ CacheUnchanged

Locals ==
    [ok |-> TRUE, result |-> result, pending_rubric |-> pending_rubric,
     fields |-> fields]

\* parse_node: one iteration of the loop; a panic unwinds the call
ParseStep ==
    /\ pc = "loop"
    /\ idx <= Len(unwrap(walked))
    /\ LET acc == ParseChild(Locals, unwrap(walked)[idx], BaseUrl) IN
        /\ result' = acc.result
        /\ pending_rubric' = acc.pending_rubric
        /\ fields' = acc.fields
        /\ pc' = IF acc.ok THEN "loop" ELSE "panicked"
    /\ idx' = idx + 1
    /\ UNCHANGED <<node, walked, sections>>
    /\ CacheUnchanged

\* parse_node: (result, fields) is returned
ParseReturn ==
    /\ pc = "loop"
    /\ idx > Len(unwrap(walked))
    /\ pc' = "returned"
    /\ UNCHANGED <<node, walked, idx, result, pending_rubric, fields, sections>>
    /\ CacheUnchanged

InitParse == InitPure(ParseInputs)
NextParse == ParseText \/ ParseEnter \/ ParseStep \/ ParseReturn
SpecParse == InitParse /\ [][NextParse]_vars

-----------------------------------------------------------------------------
(* Properties of walk_nodes                                                *)

\* a dl child that carries a class attribute without the class field-list
IsOtherClassedDl(c) ==
    /\ c.type = "Element"
    /\ c.name = "dl"
    /\ is_some(c.class)
    /\ ~SeqHas(unwrap(c.class), "field-list")

IsFieldListDl(c) ==
    c.type = "Element" /\ c.name = "dl" /\ HasClassPredicate("field-list", c)

\* a child the walker recurses into, splicing what its own children emit
IsFlattened(c) ==
    /\ c.type = "Element"
    /\ c.name \notin AllowedTags \cup HTags \cup {"dl"}
    /\ is_some(c.class)
    /\ ~(c.name = "div" /\ \E tag \in WalkedDivClasses : SeqHas(unwrap(c.class), tag))

\* the position of the first such dl among kids, or Len(kids) + 1
FirstBoundary(kids) ==
    IF \E i \in 1..Len(kids) : IsOtherClassedDl(kids[i])
    THEN CHOOSE i \in 1..Len(kids) :
            /\ IsOtherClassedDl(kids[i])
            /\ \A j \in 1..(i - 1) : ~IsOtherClassedDl(kids[j])
    ELSE Len(kids) + 1

WalkOf(kids) == walk_nodes(WithKids(node, kids))

-----------------------------------------------------------------------------
(* Properties of parse_signature_node                                      *)

\* the table of the tokenizer's rules, in priority order: <<applies, bold, color>>
SpanRules(child) ==
    LET has(c) == \E i \in 1..Len(class_list_or_empty(child)) :
                     class_list_or_empty(child)[i] = c
    IN << <<child.name = "em" /\ ~has("sig-param"), FALSE, "green">>,
          <<has("sig-paren") \/ has("o"), TRUE, "gray">>,
          <<has("n"), FALSE, "yellow">>,
          <<has("default_value"), FALSE, "cyan">>,
          <<has("sig-prename"), FALSE,
            IF has("descclassname") THEN "white" ELSE "red">>,
          <<has("descname") \/ has("sig-name"), TRUE, "white">>,
          <<has("sig-param"), FALSE, "splice">> >>

RECURSIVE ExpectedSpans(_)
ExpectedSpans(n) ==
    Flatten([i \in 1..Len(n.kids) |->
        LET child == n.kids[i]
            rules == SpanRules(child)
            hits == {r \in 1..Len(rules) : rules[r][1]}
        IN IF child.type = "Text"
           THEN <<[content |-> child.text, bold |-> TRUE, color |-> "gray"]>>
           ELSE IF child.type # "Element" \/ hits = {} THEN <<>>
           ELSE LET r == CHOOSE r \in hits : \A q \in hits : r <= q IN
                IF rules[r][3] = "splice" THEN ExpectedSpans(child)
                ELSE <<[content |-> node_text(child), bold |-> rules[r][2],
                        color |-> rules[r][3]]>>])

(* C6: parse_signature_node(node) is, in the order of node's direct         *)
(* children, the concatenation of: one (bold, gray) span for a text child;  *)
(* for an element child the span of the first rule that applies, in the     *)
(* order em without sig-param (green), sig-paren or o (bold gray), n        *)
(* (yellow), default_value (cyan), sig-prename (white with descclassname,   *)
(* else red), descname or sig-name (bold white), sig-param (the spans of    *)
(* the element's own children, spliced in place); otherwise no span.        *)
C6_SignatureSpans ==
    pc = "returned" => unwrap(sections) = ExpectedSpans(node)

C6_Witness ==
    /\ pc = "returned"
    /\ Len(node.kids) = 3
    /\ node.kids[1] = El("span", Classes(<<"n">>), <<Tb>>)
    /\ node.kids[2] = El("em", Classes(<<"sig-param">>), SigParamKids)
    /\ node.kids[3] = Ta
    /\ Len(unwrap(sections)) = 5
    /\ unwrap(sections)[2].color = "yellow"
    /\ unwrap(sections)[4].color = "cyan"
    /\ unwrap(sections)[5] = [content |-> <<"a">>, bold |-> TRUE, color |-> "gray"]

-----------------------------------------------------------------------------
(* Properties of parse_node                                                *)

\* one iteration of parse_node's loop has run to its end
StepDone == pc = "loop" /\ pc' = "loop" /\ idx' = idx + 1

\* the walked child an iteration is about, and the element it wraps
Child == unwrap(walked)[idx]
ChildIs(name) ==
    Child.w = "Element" /\ unwrap(Child.element).name = name
ChildElement == unwrap(Child.element)
ChildHasClass(c) == SeqHas(class_list_or_empty(ChildElement), c)

\* the fields an iteration pushed
Pushed == SubSeq(fields', Len(fields) + 1, Len(fields'))

(* C5: parse_node never aborts: for every description subtree it returns a  *)
(* (markdown, fields) pair; an admonition without a p or with nothing after *)
(* its first p, and a dl.describe block without a dt or without a dd, only  *)
(* make that sub-item be left out.                                          *)
C5_NeverAborts == pc # "panicked"

\* the field the claim gives one (dt, dd) pair of recursed texts
ClaimedPairFields(dt, dd) ==
    IF dt # <<>> /\ dd # <<>> THEN <<EmbedField(dt, dd)>>
    ELSE IF dd = <<>> /\ dt # <<>> THEN <<EmbedField(dt, NoContentProvided)>>
    ELSE <<>>

ClaimedDlFields(element) ==
    LET dts == find(element, IsDt)
        dds == find(element, IsDd)
    IN Flatten([i \in 1..Min(Len(dts), Len(dds)) |->
           LET t == parse_node(at(element, dts[i]), BaseUrl)
               d == parse_node(at(element, dds[i]), BaseUrl)
           IN t.fields \o d.fields \o ClaimedPairFields(t.text, d.text)])

(* C7: handling a field-list dl, parse_node emits for each positional       *)
(* (dt, dd) pair of its descendants the field {dt, dd} when both recursed   *)
(* texts are non-empty, {dt, "No content provided."} when dd is empty and   *)
(* dt is not, and no field when dt is empty; so every such field has a      *)
(* non-empty name and a non-empty value.                                    *)
C7_DlFields ==
    [][(StepDone /\ ChildIs("dl")) =>
          /\ Pushed = ClaimedDlFields(ChildElement)
          /\ \A i \in 1..Len(Pushed) :
                Pushed[i].name # <<>> /\ Pushed[i].value # <<>>]_vars

\* the element that follows the node at path, among its siblings
NextElementSibling(n, path) ==
    LET up == SubSeq(path, 1, Len(path) - 1)
        sibs == at(n, up).kids
        later == {j \in (path[Len(path)] + 1)..Len(sibs) : sibs[j].type = "Element"}
    IN IF later = {} THEN None
       ELSE Some(up \o <<CHOOSE j \in later : \A q \in later : j <= q>>)

ClaimedAdmonitionFields(element) ==
    LET ps == find(element, IsP) IN
    IF ps = <<>> THEN <<>>
    ELSE LET follow == NextElementSibling(element, ps[1]) IN
         IF ~is_some(follow) THEN <<>>
         ELSE LET title == trim(parse_node(at(element, ps[1]), BaseUrl).text)
                  content ==
                      trim(parse_node(at(element, unwrap(follow)), BaseUrl).text)
              IN IF title # <<>> /\ content # <<>>
                 THEN <<EmbedField(title, content)>>
                 ELSE <<>>

(* C8: handling a div with class admonition, with title the trimmed         *)
(* recursed text of its first p descendant and content the trimmed recursed *)
(* text of the element immediately following that p, parse_node adds        *)
(* exactly the one field {title, content} when both are non-empty, and no   *)
(* field when either is empty or missing.                                   *)
C8_AdmonitionField ==
    [][(StepDone /\ ChildIs("div") /\ ChildHasClass("admonition")) =>
          Pushed = ClaimedAdmonitionFields(ChildElement)]_vars

IsRubricStep == ChildIs("p") /\ ChildHasClass("rubric")
IsPythonBlockStep == ChildIs("div") /\ ChildHasClass("highlight-python3")

RubricField ==
    EmbedField(unwrap(pending_rubric),
               PyFenceOpen \o node_text(ChildElement) \o FenceClose)

(* C10, as stated: in one parse_node invocation a p with class rubric emits *)
(* no text and sets the pending rubric to its trimmed text; a div with      *)
(* class highlight-python3 emits the field named by the pending rubric      *)
(* exactly when one is pending, and clears it; without a pending rubric it  *)
(* emits no field and no text; nothing else touches the pending rubric.     *)
C10_AsStated ==
    [][StepDone =>
          /\ IsRubricStep =>
                /\ result' = result
                /\ fields' = fields
                /\ pending_rubric' = Some(trim(node_text(ChildElement)))
          /\ IsPythonBlockStep =>
                IF is_some(pending_rubric)
                THEN /\ fields' = Append(fields, RubricField)
                     /\ pending_rubric' = None
                     /\ result' = result
                ELSE /\ fields' = fields
                     /\ result' = result
                     /\ pending_rubric' = None
          /\ (~IsRubricStep /\ ~IsPythonBlockStep) =>
                pending_rubric' = pending_rubric]_vars

\* what the iteration would have done had no rubric been pending
WithoutPending ==
    ParseChild([Locals EXCEPT !.pending_rubric = None], Child, BaseUrl)

(* C10, amended: as stated, for a div with class highlight-python3 that     *)
(* does not also carry class admonition; such a div without a pending       *)
(* rubric pushes no rubric field and emits text only if it also carries     *)
(* class highlight-default; a div that carries class admonition is parsed   *)
(* as an admonition and leaves the pending rubric as it is; every other     *)
(* child leaves it as it is and does what it would do with none pending.    *)
C10_PendingRubric ==
    [][StepDone =>
          /\ IsRubricStep =>
                /\ result' = result
                /\ fields' = fields
                /\ pending_rubric' = Some(trim(node_text(ChildElement)))
          /\ (IsPythonBlockStep /\ ~ChildHasClass("admonition")) =>
                IF is_some(pending_rubric)
                THEN /\ Len(fields') > Len(fields)
                     /\ SubSeq(fields', 1, Len(fields) + 1)
                            = Append(fields, RubricField)
                     /\ SubSeq(fields', Len(fields) + 2, Len(fields'))
                            = SubSeq(WithoutPending.fields, Len(fields) + 1,
                                     Len(WithoutPending.fields))
                     /\ pending_rubric' = None
                     /\ result' = result
                ELSE /\ pending_rubric' = None
                     /\ \A i \in 1..Len(Pushed) :
                            Pushed[i].name = SupportedOperations
                     /\ result' # result => ChildHasClass("highlight-default")
          /\ (~IsRubricStep /\ ~(IsPythonBlockStep /\ ~ChildHasClass("admonition"))) =>
                /\ pending_rubric' = pending_rubric
                /\ fields' = WithoutPending.fields
                /\ result' = WithoutPending.result]_vars

\* two rubrics, then a python block: the block takes the second one's name
C10_Witness ==
    /\ pc = "loop"
    /\ idx = 4
    /\ unwrap(walked)[1].w = "Element"
    /\ unwrap(unwrap(walked)[1].element) = Rubric(<<"s">>)
    /\ unwrap(walked)[2].w = "Element"
    /\ unwrap(unwrap(walked)[2].element) = Rubric(<<" ", "r">>)
    /\ unwrap(walked)[3].w = "Element"
    /\ unwrap(unwrap(walked)[3].element)
          = Div(<<"highlight-python3">>, <<Pre(<<"c">>)>>)
    /\ fields = <<EmbedField(<<"r">>, PyFenceOpen \o <<"c">> \o FenceClose)>>
    /\ pending_rubric = None
    /\ result = <<>>

-----------------------------------------------------------------------------
(* The pages the store is tried with, and the calls made one at a time     *)

U1 == <<"h", ":", "/", "/", "d", "/">>
U2 == <<"h", ":", "/", "/", "e", "/">>
URLS == {U1, U2}
TARGETS == {"t1", "t2"}

SigDt(id) ==
    [El("dt", Classes(<<"sig", "sig-object">>),
        <<El("span", Classes(<<"sig-name", "descname">>), <<TextNode(<<"f">>)>>),
          El("span", Classes(<<"sig-paren">>), <<TextNode(<<"(">>)>>),
          El("em", Classes(<<"sig-param">>),
             <<El("span", Classes(<<"n">>), <<TextNode(<<"x">>)>>)>>),
          El("span", Classes(<<"sig-paren">>), <<TextNode(<<")">>)>>)>>)
     EXCEPT !.id = Some(id)]

Page(kids) == El("html", None, <<El("head", None, <<>>), El("body", None, kids)>>)

\* the trees Document::from gives for the htmls the calls pass
Pages ==
    << Page(<<El("dl", Classes(<<"py">>),
                 <<SigDt("t1"),
                   Dd(<<Para(<<"a">>), Rubric(<<"r">>),
                        Div(<<"highlight-python3">>, <<Pre(<<"c">>)>>)>>)>>)>>),
       Page(<<El("dl", Classes(<<"py">>),
                 <<SigDt("t2"), Dd(<<Para(<<"b">>)>>)>>)>>),
       Page(<<El("div", Classes(<<"w">>), <<SigDt("t1")>>)>>),
       Page(<<El("dl", Classes(<<"py">>),
                 <<SigDt("t1"),
                   Dd(<<Div(<<"operations">>,
                            <<DlDescribe(<<Dd(<<Ta>>)>>)>>)>>)>>)>>),
       Page(<<>>),
       Page(<<El("dl", Classes(<<"py">>),
                 <<SigDt("t1"), Dd(<<El("b", None, <<Ta>>)>>)>>),
              El("dl", Classes(<<"py">>),
                 <<SigDt("t2"), Dd(<<Link(Some(<<"x">>), <<Tb>>)>>)>>)>>) >>

HTMLS == 1..Len(Pages)

\* Document::from(html)
DocumentFrom(html) == Pages[html]

\* the store the body works on: lines 368 to 374, run without interruption
get_or_init(cell) == IF is_some(cell) THEN unwrap(cell) ELSE EmptyMap

\* lines 376 to 383: the stored document if there is one, else parse and insert
lookup_or_insertMutantReparse(store, url, html) ==
    [store |-> insert(store, url, DocumentFrom(html)),
     document |-> DocumentFrom(html), parsed |-> TRUE]
lookup_or_insert(store, url, html) ==
    IF is_some(get(store, url))
    THEN [store |-> store, document |-> unwrap(get(store, url)), parsed |-> FALSE]
    ELSE [store |-> insert(store, url, DocumentFrom(html)),
          document |-> insert(store, url, DocumentFrom(html))[url],
          parsed |-> TRUE]

PureIdle ==
    /\ node = Ta
    /\ walked = None
    /\ idx = 0
    /\ result = <<>>
    /\ pending_rubric = None
    /\ fields = <<>>
    /\ pc = "idle"
    /\ sections = None

PureUnchanged ==
    UNCHANGED <<node, walked, idx, result, pending_rubric, fields, pc, sections>>

Init ==
    /\ DOCUMENT_STORE = None
    /\ parses = [u \in URLS |-> <<>>]
    /\ called = {}
    /\ ret = NoReturn
    /\ call = [url |-> U1, html |-> 1, target |-> "t1"]
    /\ threads = <<>>
    /\ PureIdle

\* one whole call of scrape_document
ScrapeDocument(url, html, target) ==
    LET r == lookup_or_insert(get_or_init(DOCUMENT_STORE), url, html) IN
    /\ DOCUMENT_STORE' = Some(r.store)
    /\ parses' = IF r.parsed THEN [parses EXCEPT ![url] = Append(@, html)] ELSE parses
    /\ called' = called \cup {url}
    /\ ret' = extract(r.document, url, target)
    /\ call' = [url |-> url, html |-> html, target |-> target]
    /\ UNCHANGED threads
    /\ PureUnchanged

\* one whole call of has_document
HasDocument(url) ==
    /\ ret' = Bool(has_document(DOCUMENT_STORE, url))
    /\ call' = [call EXCEPT !.url = url]
    /\ UNCHANGED <<DOCUMENT_STORE, parses, called, threads>>
    /\ PureUnchanged

Next ==
    \/ \E url \in URLS, html \in HTMLS, target \in TARGETS :
          ScrapeDocument(url, html, target)
    \/ \E url \in URLS : HasDocument(url)

Spec == Init /\ [][Next]_vars

-----------------------------------------------------------------------------
(* Properties of the store under calls made one at a time                  *)

Stored(cell, url) == is_some(cell) /\ url \in DOMAIN unwrap(cell)

(* C1: first parse wins: once a document is stored for a url it is never    *)
(* replaced, parsed again or evicted; a later scrape_document for that url  *)
(* with another html extracts from the document parsed from the first       *)
(* call's html; each url is parsed at most once.                            *)
C1_FirstParseWins ==
    [][/\ \A u \in URLS :
            Stored(DOCUMENT_STORE, u) =>
                /\ Stored(DOCUMENT_STORE', u)
                /\ unwrap(DOCUMENT_STORE')[u] = unwrap(DOCUMENT_STORE)[u]
                /\ parses'[u] = parses[u]
       /\ \A u \in URLS :
            /\ Len(parses'[u]) <= 1
            /\ Stored(DOCUMENT_STORE', u) =>
                /\ Len(parses'[u]) = 1
                /\ unwrap(DOCUMENT_STORE')[u] = Pages[parses'[u][1]]
       /\ ret'.op = "scrape_document" =>
            ret' = extract(Pages[parses'[call'.url][1]], call'.url, call'.target)
      ]_vars

\* a second call with another html got the first html's result
C1_Witness ==
    /\ ret.op = "scrape_document"
    /\ ret.kind = "Ok"
    /\ parses[call.url] # <<>>
    /\ call.html # parses[call.url][1]
    /\ extract(Pages[call.html], call.url, call.target).kind = "PyValueError"

(* C2: has_document(url) is false as long as no scrape_document call with   *)
(* that url has run its lookup-or-insert step and true ever after, whatever *)
(* that call returned; has_document itself never changes the store.         *)
C2_HasDocument ==
    /\ [](\A u \in URLS : has_document(DOCUMENT_STORE, u) <=> u \in called)
    /\ [][ret'.op = "has_document" =>
            /\ DOCUMENT_STORE' = DOCUMENT_STORE
            /\ ret'.value = (call'.url \in called)]_vars

\* true after a call that returned an error, false for the other url
C2_Witness ==
    /\ ret.op = "has_document"
    /\ ret.value = TRUE
    /\ call.url = U1
    /\ called = {U1}
    /\ ~has_document(DOCUMENT_STORE, U2)
    /\ extract(unwrap(DOCUMENT_STORE)[U1], U1, call.target).kind = "PyValueError"

\* a dt whose id is target, anywhere in the document
HasSignature(document, target) ==
    \E i \in 1..Len(descendants(document)) :
        LET n == at(document, descendants(document)[i]) IN
        n.type = "Element" /\ n.name = "dt" /\ n.id = Some(target)

\* the parent of the first such dt has a dd below it
SignatureParentHasDd(document, target) ==
    LET paths == descendants(document)
        sigs == {i \in 1..Len(paths) :
                    LET n == at(document, paths[i]) IN
                    n.type = "Element" /\ n.name = "dt" /\ n.id = Some(target)}
        sig == paths[CHOOSE i \in sigs : \A j \in sigs : i <= j]
        parent == at(document, SubSeq(sig, 1, Len(sig) - 1))
    IN \E i \in 1..Len(descendants(parent)) :
          LET n == at(parent, descendants(parent)[i]) IN
          n.type = "Element" /\ n.name = "dd"

IsComplete(r, document, url, target) ==
    LET sig == unwrap(find_signature(document, target))
        parent == at(document, SubSeq(sig, 1, Len(sig) - 1))
        dd == at(parent, unwrap(first_of(find(parent, IsDd))))
    IN /\ r.kind = "Ok"
       /\ parse_node(dd, url).ok
       /\ r.description = parse_node(dd, url).text
       /\ r.fields = parse_node(dd, url).fields
       /\ r.signature = parse_signature_node(at(document, sig))

\* parse_node unwinds on the description of the signature found
DescriptionAborts(document, url, target) ==
    LET sig == unwrap(find_signature(document, target))
        parent == at(document, SubSeq(sig, 1, Len(sig) - 1))
        dd == at(parent, unwrap(first_of(find(parent, IsDd))))
    IN ~parse_node(dd, url).ok

(* C3, as stated (its error part): for any url, target and html with no dt  *)
(* whose id is target, scrape_document(url, html, target) returns a         *)
(* NotFound error, whatever calls were made before; likewise when the       *)
(* signature's parent has no dd descendant.                                 *)
C3_AsStated ==
    ret.op = "scrape_document" =>
        LET html == Pages[call.html] IN
        (~HasSignature(html, call.target)
            \/ ~SignatureParentHasDd(html, call.target))
        => ret.kind = "PyValueError"

(* C3, amended: with document the document stored for url when the call     *)
(* has run its lookup-or-insert step (parsed from this call's html only if  *)
(* none was stored), scrape_document returns the NotFound error "Could not  *)
(* find sig tag" when document has no dt whose id is target, the NotFound   *)
(* error "Could not find dd tag" when that dt's parent has no dd            *)
(* descendant, and otherwise a complete result, or nothing at all where    *)
(* parse_node aborts on the description; never a partial result.            *)
C3_Errors ==
    ret.op = "scrape_document" =>
        LET document == unwrap(DOCUMENT_STORE)[call.url] IN
        IF ~HasSignature(document, call.target)
        THEN ret = PyValueError("Could not find sig tag")
        ELSE IF ~SignatureParentHasDd(document, call.target)
        THEN ret = PyValueError("Could not find dd tag")
        ELSE \/ IsComplete(ret, document, call.url, call.target)
             \/ /\ ret = Panic
                /\ DescriptionAborts(document, call.url, call.target)

\* the html has the dt, the stored document does not: NotFound
C3_Witness ==
    /\ ret.op = "scrape_document"
    /\ ret = PyValueError("Could not find sig tag")
    /\ HasSignature(Pages[call.html], call.target)
    /\ SignatureParentHasDd(Pages[call.html], call.target)
    /\ ~HasSignature(unwrap(DOCUMENT_STORE)[call.url], call.target)

-----------------------------------------------------------------------------
(* Calls from several threads: the statements of scrape_document's unsafe  *)
(* block, one at a time.  Nothing in the source orders two threads.        *)

NThreads == 2
THREADS == 1..NThreads
ConcHTMLS == {1, 2}

IdleThread ==
    [pc |-> "idle", url |-> U1, html |-> 1, target |-> "t1",
     document |-> None, dangling |-> FALSE, ret |-> "none"]

InitConc ==
    /\ DOCUMENT_STORE = None
    /\ parses = [u \in URLS |-> <<>>]
    /\ called = {}
    /\ ret = NoReturn
    /\ call = [url |-> U1, html |-> 1, target |-> "t1"]
    /\ threads = [t \in THREADS |-> IdleThread]
    /\ PureIdle

ConcUnchanged == UNCHANGED <<ret, call>> /\ PureUnchanged

\* a thread enters scrape_document
CallScrape(t, url, html) ==
    /\ threads[t].pc = "idle"
    /\ threads' = [threads EXCEPT
                      ![t] = [IdleThread EXCEPT !.pc = "get_mut", !.url = url,
                                                !.html = html]]
    /\ UNCHANGED <<DOCUMENT_STORE, parses, called>>
    /\ ConcUnchanged

\* line 368: if let Some(store) = DOCUMENT_STORE.get_mut()
GetMut(t) ==
    /\ threads[t].pc = "get_mut"
    /\ threads' = [threads EXCEPT
                      ![t].pc = IF is_some(DOCUMENT_STORE) THEN "lookup" ELSE "set"]
    /\ UNCHANGED <<DOCUMENT_STORE, parses, called>>
    /\ ConcUnchanged

\* lines 371 to 373: DOCUMENT_STORE.set(HashMap::new()).unwrap(): set gives Err,
\* and unwrap panics, when the cell was filled in the meantime
SetStore(t) ==
    /\ threads[t].pc = "set"
    /\ IF is_some(DOCUMENT_STORE)
       THEN /\ threads' = [threads EXCEPT ![t].pc = "panicked", ![t].ret = "panic"]
            /\ UNCHANGED DOCUMENT_STORE
       ELSE /\ DOCUMENT_STORE' = Some(EmptyMap)
            /\ threads' = [threads EXCEPT ![t].pc = "lookup"]
    /\ UNCHANGED <<parses, called>>
    /\ ConcUnchanged

\* line 376: if let Some(document) = store.get(url)
Lookup(t) ==
    /\ threads[t].pc = "lookup"
    /\ LET found == get(unwrap(DOCUMENT_STORE), threads[t].url) IN
       threads' = [threads EXCEPT
                      ![t].pc = IF is_some(found) THEN "extract" ELSE "parse",
                      ![t].document = found]
    /\ called' = called \cup {threads[t].url}
    /\ UNCHANGED <<DOCUMENT_STORE, parses>>
    /\ ConcUnchanged

\* line 379: let document = Document::from(html)
ParseHtml(t) ==
    /\ threads[t].pc = "parse"
    /\ threads' = [threads EXCEPT
                      ![t].pc = "insert",
                      ![t].document = Some(DocumentFrom(threads[t].html))]
    /\ parses' = [parses EXCEPT ![threads[t].url] = Append(@, threads[t].html)]
    /\ UNCHANGED <<DOCUMENT_STORE, called>>
    /\ ConcUnchanged

\* lines 380 to 382: store.insert(url, document); store.get(url).unwrap().
\* An insert for a key that is held drops the held document, and an insert
\* may move the table: references other threads took earlier then dangle.
InsertDocument(t) ==
    /\ threads[t].pc = "insert"
    /\ DOCUMENT_STORE' =
          Some(insert(unwrap(DOCUMENT_STORE), threads[t].url,
                      unwrap(threads[t].document)))
    /\ \E moved \in BOOLEAN :
          threads' = [o \in THREADS |->
              IF o = t THEN [threads[t] EXCEPT !.pc = "extract"]
              ELSE IF threads[o].pc = "extract"
                      /\ (moved \/ threads[o].url = threads[t].url)
              THEN [threads[o] EXCEPT !.dangling = TRUE]
              ELSE threads[o]]
    /\ UNCHANGED <<parses, called>>
    /\ ConcUnchanged

\* lines 386 to 407 on the reference the thread holds; reading through a
\* dangling reference is undefined: any document, or a crash
ExtractFrom(t) ==
    /\ threads[t].pc = "extract"
    /\ \/ /\ ~threads[t].dangling
          /\ threads' = [threads EXCEPT
                ![t].pc = "done",
                ![t].ret = extract(unwrap(threads[t].document),
                                   threads[t].url, threads[t].target).kind]
       \/ /\ threads[t].dangling
          /\ \E h \in HTMLS :
                threads' = [threads EXCEPT
                    ![t].pc = "done",
                    ![t].document = Some(Pages[h]),
                    ![t].ret = extract(Pages[h], threads[t].url,
                                       threads[t].target).kind]
       \/ /\ threads[t].dangling
          /\ threads' = [threads EXCEPT ![t].pc = "done", ![t].ret = "crash"]
    /\ UNCHANGED <<DOCUMENT_STORE, parses, called>>
    /\ ConcUnchanged

\* has_document, lines 21 to 25
CallHasDocument(t, url) ==
    /\ threads[t].pc = "idle"
    /\ threads' = [threads EXCEPT
          ![t] = [IdleThread EXCEPT
                     !.pc = "done", !.url = url,
                     !.ret = IF has_document(DOCUMENT_STORE, url)
                             THEN "true" ELSE "false"]]
    /\ UNCHANGED <<DOCUMENT_STORE, parses, called>>
    /\ ConcUnchanged

NextConc ==
    \E t \in THREADS :
        \/ \E url \in URLS, html \in ConcHTMLS : CallScrape(t, url, html)
        \/ GetMut(t)
        \/ SetStore(t)
        \/ Lookup(t)
        \/ ParseHtml(t)
        \/ InsertDocument(t)
        \/ ExtractFrom(t)
        \/ \E url \in URLS : CallHasDocument(t, url)

SpecConc == InitConc /\ [][NextConc]_vars

(* C4: under calls from several threads the lookup-or-insert on the store,  *)
(* its creation on first use included, behaves atomically: each url is      *)
(* parsed and inserted at most once, all callers for a url extract from the *)
(* same stored document, and no call fails or aborts in its cache step.     *)
C4_Serialized ==
    /\ \A u \in URLS : Len(parses[u]) <= 1
    /\ \A t \in THREADS :
        /\ threads[t].pc # "panicked"
        /\ ~threads[t].dangling
        /\ (threads[t].pc \in {"extract", "done"} /\ is_some(threads[t].document)) =>
              unwrap(threads[t].document) = Pages[parses[threads[t].url][1]]

=============================================================================
